---- MODULE Spec2Model ----
(***************************************************************************)
(* Model of the LLM code deployment service: the HTTP handler receive_task *)
(* (src/main.py), the background workflow process_task with its callback   *)
(* notifier post_to_evaluation_url (src/main.py), the content generator    *)
(* generate_files_from_brief (src/llm_utils.py), the repository publisher  *)
(* create_and_push_repo (src/github_utils.py) and the tasks table.         *)
(*                                                                         *)
(* Three specifications are given.                                         *)
(*   Spec     the service as the sources wire it: process_task calls the   *)
(*            generator with the keywords of main.py:91-97, which          *)
(*            llm_utils.py:36 does not declare.                            *)
(*   SpecGen  the same workflow where that call passes only the keywords   *)
(*            the generator declares, so that the generator's body, the    *)
(*            publisher and the notifier (main.py:98-121) are exercised.   *)
(*   SpecCall the publisher create_and_push_repo on its own: concurrent    *)
(*            calls with the repository names process_task derives and     *)
(*            with file mappings that extend the one process_task passes.  *)
(* Pass-through request fields that no branch reads (email, brief, checks, *)
(* attachments) are left out of the records.                               *)
(***************************************************************************)
EXTENDS Integers, Sequences, FiniteSets, TLC

(***************************************************************************)
(* Bounds                                                                  *)
(***************************************************************************)
\* Number of HTTP requests the service receives in one behaviour of Spec.
MaxReq == 2

\* Number of HTTP requests the service receives in one behaviour of SpecGen.
MaxGenReq == 1

\* Number of calls of create_and_push_repo in one behaviour of SpecCall.
MaxCalls == 2

(***************************************************************************)
(* Values                                                                  *)
(***************************************************************************)
\* Python's None.
None == "<None>"

\* Python truthiness of an optional string: None and "" are falsy.
Falsy(v) == v = None \/ v = ""

\* Secrets a caller may present.
Secrets == {"s3cret", "wrong"}

\* helpers.hash_secret: SHA-256 hex digest, collision-free on Secrets.
hash_secret(s) == "sha256(" \o s \o ")"

\* Values of the environment variable STORED_SECRET_HASH at start-up.
StoredHashes == {None, "", hash_secret("s3cret")}

\* Task names, as character sequences.
TaskNames == {<<"a", "p", "p">>}

\* Nonces, as character sequences: the nonce of the end-to-end scenario, a
\* second nonce that differs from it only in the placing of the separators
\* and beyond the eighth character.
NonceA == <<"a","b","c","d","-","1","2","3","4","-","x","x","x","x">>
NonceB == <<"a","b","c","d","1","2","3","4","-","y","y">>
Nonces == {NonceA, NonceB}

Rounds == {1, 2, 3}

EvalUrls == {None, "http://eval"}

\* The request of the end-to-end scenario.
BaseRequest ==
  [secret |-> "s3cret", task |-> <<"a", "p", "p">>, round |-> 1,
   nonce |-> NonceA, evaluation_url |-> "http://eval"]

\* Number of fields in which two requests differ.
Distance(r, q) == Cardinality({f \in DOMAIN r : r[f] # q[f]})

\* TaskRequest (the fields that drive control flow): the base request and
\* every request that differs from it in one field.
Requests ==
  {r \in [secret : Secrets, task : TaskNames, round : Rounds, nonce : Nonces,
          evaluation_url : EvalUrls] : Distance(r, BaseRequest) <= 1}

\* Length of the nonce prefix used in repository names (nonce...[:8]).
ShortLen == 8

\* str.replace("-", "") on a character sequence.
RECURSIVE StripDashes(_)
StripDashes(s) ==
  IF s = << >> THEN << >>
  ELSE IF Head(s) = "-" THEN StripDashes(Tail(s))
       ELSE <<Head(s)>> \o StripDashes(Tail(s))

\* s[:n]
Prefix(s, n) == SubSeq(s, 1, IF Len(s) < n THEN Len(s) ELSE n)

\* process_task: short = nonce.replace("-", "")[:8]
Short(nonce) == Prefix(StripDashes(nonce), ShortLen)

\* A repository name that leaves the nonce out.
RepoNameTaskOnly(task, nonce) == task \o <<"-">>

\* process_task: repo_name = f"{task}-{short}"
RepoName(task, nonce) == task \o <<"-">> \o Short(nonce)

(***************************************************************************)
(* Status strings of the tasks table                                       *)
(***************************************************************************)
Received == <<"received">>
Completed(task, round) == <<"completed", task, round>>
Failed(err) == <<"failed", err>>
IsTerminal(st) == st[1] \in {"completed", "failed"}

(***************************************************************************)
(* Callback retry loop (main.py:149-158 and github_utils.py:153-161)       *)
(***************************************************************************)
\* The fixed list of delays: for delay in [1, 2, 4, 8].
Delays == <<1, 2, 4, 8>>

\* State of one run of the loop: attempts made, whether the last attempt got
\* a 200, and the delays slept so far.
NewLoop == [k |-> 0, acked |-> FALSE, slept |-> << >>]

\* Outcomes of requests.post(url, ...): a 200 response, another status, or a
\* raised exception.  A missing URL raises before anything is sent.
PostOutcomes(url) == IF Falsy(url) THEN {"exc"} ELSE {"200", "non200", "exc"}

\* One iteration of the loop body with the given outcome of requests.post:
\* a 200 leaves the loop, anything else sleeps the iteration's delay.
LoopStep(l, o) ==
  IF o = "200"
  THEN [l EXCEPT !.k = l.k + 1, !.acked = TRUE]
  ELSE [l EXCEPT !.k = l.k + 1, !.slept = Append(l.slept, Delays[l.k + 1])]

\* A loop without the early exit on a 200.
LoopOverNoBreak(l) == l.k = Len(Delays)

\* The loop is left after a 200 or when the list of delays is exhausted.
LoopOver(l) == l.acked \/ l.k = Len(Delays)

(***************************************************************************)
(* Generated file set                                                      *)
(***************************************************************************)
\* Text returned by the chat completion (after strip()).
LlmOutputs == {"<html>", ""}

WorkflowPath == ".github/workflows/pages.yml"

\* The mapping returned by generate_files_from_brief.
GenFiles(html) ==
  [p \in {"index.html", "README.md", "LICENSE"} |->
     CASE p = "index.html" -> html
       [] p = "README.md" -> "readme"
       [] p = "LICENSE" -> "MIT License (c) 2025"]

\* d[key] = value on a dict.
DictSet(d, key, value) ==
  [p \in DOMAIN d \cup {key} |-> IF p = key THEN value ELSE d[p]]

\* main.get_mit_license_text()
MitLicenseText == "MIT License ... full text"

(***************************************************************************)
(* Publish result                                                          *)
(***************************************************************************)
\* The account the token authenticates (user.login).
Login == "owner"

RECURSIVE Str(_)
Str(cs) == IF cs = << >> THEN "" ELSE Head(cs) \o Str(Tail(cs))

\* repo.html_url
HtmlUrl(name) == "https://github.com/" \o Login \o "/" \o Str(name)

\* pages_url = f"https://{user.login}.github.io/{repo_name}/"
PagesUrl(name) == "https://" \o Login \o ".github.io/" \o Str(name) \o "/"

\* git rev-parse HEAD of the commit made by task i.
CommitSha(i) == "sha-" \o ToString(i)

\* return None, None, None
NoneTriple == <<None, None, None>>

(***************************************************************************)
(* State                                                                   *)
(***************************************************************************)
VARIABLES
  STORED_SECRET_HASH, \* configuration read at import
  nreq,               \* requests received so far
  resp,               \* the last request and the HTTP status it got
  rows,               \* the tasks table, in insertion order (index = id)
  updates,            \* per row: number of UPDATE statements that matched it
  bg,                 \* background tasks, one per accepted request
  remote              \* the hosting platform: repository name -> content of main

vars == <<STORED_SECRET_HASH, nreq, resp, rows, updates, bg, remote>>

NoResp == [code |-> 0, secret |-> None, nonce |-> << >>]

Init ==
  /\ STORED_SECRET_HASH \in StoredHashes
  /\ nreq = 0
  /\ resp = NoResp
  /\ rows = << >>
  /\ updates = << >>
  /\ bg = << >>
  /\ remote = << >>

(***************************************************************************)
(* receive_task                                                            *)
(***************************************************************************)
\* receive_task without the check for an unconfigured digest.
AuthStatusNoConfigCheck(stored, secret) ==
  IF hash_secret(secret) # stored THEN 403 ELSE 200

\* receive_task without the comparison of the digests.
AuthStatusNoCompare(stored, secret) ==
  IF Falsy(stored) THEN 500 ELSE 200

\* The two guards of receive_task, as the HTTP status they produce.
AuthStatus(stored, secret) ==
  IF Falsy(stored) THEN 500
  ELSE IF hash_secret(secret) # stored THEN 403
  ELSE 200

\* The row INSERTed by receive_task.
NewRow(req) ==
  [id |-> Len(rows) + 1, task |-> req.task, round |-> req.round,
   nonce |-> req.nonce, secret_hash |-> STORED_SECRET_HASH,
   evaluation_url |-> req.evaluation_url, status |-> Received]

\* The background task scheduled by receive_task: process_task(req.dict()).
\* Besides the locals of process_task the record holds the locals of the
\* call of create_and_push_repo it makes: the mapping as passed (given), how
\* the repository was resolved (how), the outcome of the Pages request
\* (hosting), the steps taken so far (steps), and the temporary directory
\* (tmp, with its name dir).  direct marks a call of create_and_push_repo
\* made without process_task and without evaluation_data.  short and
\* repo_name are the locals process_task derives at main.py:84-85.
NewTask(req) ==
  [data |-> req, pc |-> "generate", err |-> None, llm |-> None,
   files |-> << >>, tmp |-> FALSE, result |-> << >>,
   pub |-> NewLoop, ev |-> NewLoop, sent |-> {},
   given |-> << >>, how |-> None, hosting |-> None, steps |-> << >>,
   dir |-> 0, direct |-> FALSE,
   short |-> Short(req.nonce), repo_name |-> RepoName(req.task, req.nonce)]

ReceiveTask(max) ==
  /\ nreq < max
  /\ \E req \in Requests :
       LET code == AuthStatus(STORED_SECRET_HASH, req.secret) IN
       /\ nreq' = nreq + 1
       /\ resp' = [code |-> code, secret |-> req.secret, nonce |-> req.nonce]
       /\ IF code = 200
          THEN /\ rows' = Append(rows, NewRow(req))
               /\ updates' = Append(updates, 0)
               /\ bg' = Append(bg, NewTask(req))
          ELSE UNCHANGED <<rows, updates, bg>>
  /\ UNCHANGED <<STORED_SECRET_HASH, remote>>

(***************************************************************************)
(* process_task                                                            *)
(***************************************************************************)
\* Parameters declared by llm_utils.generate_files_from_brief.
GenParams == {"brief", "attachments"}

\* Keywords passed by process_task to generate_files_from_brief.
CallKeywords == {"brief", "attachments", "round_number", "user", "repo_name"}

\* Python binds a keyword call only if every keyword is a declared parameter.
Binds(keywords, params) == keywords \subseteq params

\* UPDATE tasks SET status=? WHERE nonce=?
UpdateStatus(rs, nonce, st) ==
  [k \in 1..Len(rs) |->
     IF rs[k].nonce = nonce THEN [rs[k] EXCEPT !.status = st] ELSE rs[k]]

CountUpdate(us, rs, nonce) ==
  [k \in 1..Len(us) |-> IF rs[k].nonce = nonce THEN us[k] + 1 ELSE us[k]]

\* Outcomes of the body of generate_files_from_brief: get_llm_client raises
\* (no API key), the chat completion raises, or it returns some text.
GenOutcomes == {"no_key", "llm_raise"} \cup LlmOutputs

\* The mapping process_task passes to create_and_push_repo: the generator's
\* mapping with files["LICENSE"] = get_mit_license_text().
ProcessTaskFiles(html) == DictSet(GenFiles(html), "LICENSE", MitLicenseText)

\* A generator call whose failures are swallowed: the workflow goes on to
\* publish an empty document.
GenerateCallSwallow(i, keywords) ==
  /\ bg[i].pc = "generate"
  /\ IF ~Binds(keywords, GenParams)
     THEN bg' = [bg EXCEPT ![i].pc = "except", ![i].err = "TypeError"]
     ELSE \E o \in GenOutcomes :
            bg' = [bg EXCEPT
                     ![i].pc = "publish",
                     ![i].llm = IF o = "llm_raise" THEN "raised" ELSE "returned",
                     ![i].files =
                        ProcessTaskFiles(IF o \in LlmOutputs THEN o ELSE ""),
                     ![i].given =
                        ProcessTaskFiles(IF o \in LlmOutputs THEN o ELSE "")]
  /\ UNCHANGED <<STORED_SECRET_HASH, nreq, resp, rows, updates, remote>>

\* The call of generate_files_from_brief in process_task's try block, and
\* files["LICENSE"] = get_mit_license_text() after it returns.
GenerateCall(i, keywords) ==
  /\ bg[i].pc = "generate"
  /\ IF ~Binds(keywords, GenParams)
     THEN bg' = [bg EXCEPT ![i].pc = "except", ![i].err = "TypeError"]
     ELSE \E o \in GenOutcomes :
            IF o = "no_key"
            THEN bg' = [bg EXCEPT ![i].pc = "except", ![i].err = "RuntimeError"]
            ELSE IF o = "llm_raise"
            THEN bg' = [bg EXCEPT ![i].pc = "except", ![i].err = "LLMError",
                                  ![i].llm = "raised"]
            ELSE bg' = [bg EXCEPT
                          ![i].pc = "publish",
                          ![i].llm = "returned",
                          ![i].files = ProcessTaskFiles(o),
                          ![i].given = ProcessTaskFiles(o)]
  /\ UNCHANGED <<STORED_SECRET_HASH, nreq, resp, rows, updates, remote>>

\* The except branch of process_task.
UpdateFailed(i) ==
  /\ bg[i].pc = "except"
  /\ rows' = UpdateStatus(rows, bg[i].data.nonce, Failed(bg[i].err))
  /\ updates' = CountUpdate(updates, rows, bg[i].data.nonce)
  /\ bg' = [bg EXCEPT ![i].pc = "done"]
  /\ UNCHANGED <<STORED_SECRET_HASH, nreq, resp, remote>>

(***************************************************************************)
(* create_and_push_repo                                                    *)
(***************************************************************************)
\* repo_name computed by process_task for task i.
NameOf(i) == bg[i].repo_name

\* The locals of create_and_push_repo are not read after it has returned
\* and are dropped from the state; leaving the with block, normally or by an
\* exception, removes the temporary directory.
Leave(b) ==
  [b EXCEPT !.tmp = FALSE, !.dir = 0, !.files = << >>, !.given = << >>,
            !.how = None, !.hosting = None, !.steps = << >>]

\* Where control is after create_and_push_repo has returned: in process_task
\* at the call of post_to_evaluation_url, or in the direct caller.
ReturnPc(b) == IF b.direct THEN "returned" ELSE "post_eval"

\* Where control is after an exception has left create_and_push_repo.
RaisePc(b) == IF b.direct THEN "raised" ELSE "except"

\* create_and_push_repo returns (None, None, None).
ReturnNone(i) ==
  [bg EXCEPT ![i] = [Leave(bg[i]) EXCEPT !.pc = ReturnPc(bg[i]),
                                         !.result = NoneTriple]]

\* An exception leaves create_and_push_repo; in process_task it reaches the
\* except clause.
Raise(i, e) ==
  [bg EXCEPT ![i] = [Leave(bg[i]) EXCEPT !.pc = RaisePc(bg[i]), !.err = e]]

\* The step names recorded in steps, in the order of the function body.
Step(b, name) == Append(b.steps, name)

\* Outcomes of the first part where every existing repository is created
\* anew.
ResolveOutcomesRecreate(name) ==
  {"no_token", "auth_raise", "create_error", "create_raise", "created"}

\* Outcomes of the first part: the token lookup, user.login, create_repo and,
\* after a 422 "name already exists", get_repo.
ResolveOutcomes(name) ==
  {"no_token", "auth_raise", "create_error", "create_raise"}
    \cup (IF name \in DOMAIN remote
          THEN {"exists", "exists_fetch_fail"} ELSE {"created"})

\* Lines 12-40: resolve the repository.
PubResolve(i) ==
  /\ bg[i].pc = "publish"
  /\ \E o \in ResolveOutcomes(NameOf(i)) :
       /\ bg' = CASE o = "no_token" -> Raise(i, "GITHUB_TOKEN not set")
                  [] o = "auth_raise" -> Raise(i, "GithubException")
                  [] o = "create_raise" -> Raise(i, "ConnectionError")
                  [] o \in {"create_error", "exists_fetch_fail"} -> ReturnNone(i)
                  [] OTHER -> [bg EXCEPT ![i].pc = "pages",
                                 ![i].how = IF o = "created" THEN "created"
                                            ELSE "reused",
                                 ![i].steps = Step(bg[i], "resolve")]
       /\ remote' = IF o = "created"
                    THEN [n \in DOMAIN remote \cup {NameOf(i)} |->
                            IF n = NameOf(i) THEN << >> ELSE remote[n]]
                    ELSE remote
  /\ UNCHANGED <<STORED_SECRET_HASH, nreq, resp, rows, updates>>

\* Outcomes of requests.post(pages_api, ...): the four branches on
\* r.status_code and an exception.
HostingOutcomes == {"201", "409", "404", "other", "raised"}

\* A Pages request whose exception is not caught.
PubPagesAborts(i) ==
  /\ bg[i].pc = "pages"
  /\ \E o \in HostingOutcomes :
       bg' = IF o = "raised"
             THEN Raise(i, "ConnectionError")
             ELSE [bg EXCEPT ![i].pc = "write", ![i].hosting = o,
                     ![i].steps = Step(bg[i], "pages"),
                     ![i].files = DictSet(bg[i].files, WorkflowPath, "workflow")]
  /\ UNCHANGED <<STORED_SECRET_HASH, nreq, resp, rows, updates, remote>>

\* Lines 42-94: the Pages pre-enable request, whose every outcome is only
\* logged, and files[".github/workflows/pages.yml"] = workflow_content.
PubPages(i) ==
  /\ bg[i].pc = "pages"
  /\ \E o \in HostingOutcomes :
       bg' = [bg EXCEPT ![i].pc = "write", ![i].hosting = o,
                ![i].steps = Step(bg[i], "pages"),
                ![i].files = DictSet(bg[i].files, WorkflowPath, "workflow")]
  /\ UNCHANGED <<STORED_SECRET_HASH, nreq, resp, rows, updates, remote>>

\* The names of the temporary directories that exist.
LiveDirs == {bg[j].dir : j \in 1..Len(bg)} \ {0}

\* tempfile.TemporaryDirectory(): a directory of a name that does not exist.
FreshDir == CHOOSE d \in 1..(Len(bg) + 1) : d \notin LiveDirs

\* Files written before the Pages request is made.
PubWriteEarly(i) ==
  /\ bg[i].pc \in {"pages", "write"}
  /\ \/ bg' = [bg EXCEPT ![i].pc = "commit", ![i].tmp = TRUE,
                 ![i].dir = FreshDir, ![i].hosting = None,
                 ![i].steps = Step(bg[i], "write")]
     \/ bg' = ReturnNone(i)
  /\ UNCHANGED <<STORED_SECRET_HASH, nreq, resp, rows, updates, remote>>

\* Lines 98-104: the temporary directory is created and the files written.
\* The response of the Pages request is not read again.
PubWrite(i) ==
  /\ bg[i].pc = "write"
  /\ \/ bg' = [bg EXCEPT ![i].pc = "commit", ![i].tmp = TRUE,
                 ![i].dir = FreshDir, ![i].hosting = None,
                 ![i].steps = Step(bg[i], "write")]
     \/ bg' = ReturnNone(i)
  /\ UNCHANGED <<STORED_SECRET_HASH, nreq, resp, rows, updates, remote>>

\* A commit step whose failure returns without leaving the with block.
PubCommitLeaks(i) ==
  /\ bg[i].pc = "commit"
  /\ \/ bg' = [bg EXCEPT ![i].pc = "push", ![i].steps = Step(bg[i], "commit")]
     \/ bg' = [bg EXCEPT ![i].pc = ReturnPc(bg[i]), ![i].files = << >>,
                          ![i].result = NoneTriple]
  /\ UNCHANGED <<STORED_SECRET_HASH, nreq, resp, rows, updates, remote>>

\* Lines 107-121: git init, config, branch, add, commit.
PubCommit(i) ==
  /\ bg[i].pc = "commit"
  /\ \/ bg' = [bg EXCEPT ![i].pc = "push", ![i].steps = Step(bg[i], "commit")]
     \/ bg' = ReturnNone(i)
  /\ UNCHANGED <<STORED_SECRET_HASH, nreq, resp, rows, updates, remote>>

\* A push that adds its files to what the branch already holds.
PubPushMerges(i) ==
  /\ bg[i].pc = "push"
  /\ \/ /\ bg' = [bg EXCEPT ![i].pc = "revparse",
                    ![i].steps = Step(bg[i], "push")]
        /\ remote' = [remote EXCEPT ![NameOf(i)] =
                        [p \in DOMAIN @ \cup DOMAIN bg[i].files |->
                           IF p \in DOMAIN bg[i].files THEN bg[i].files[p]
                           ELSE @[p]]]
     \/ /\ bg' = ReturnNone(i)
        /\ UNCHANGED remote
  /\ UNCHANGED <<STORED_SECRET_HASH, nreq, resp, rows, updates>>

\* Lines 123-125: git remote add, git push -u origin main --force.  The
\* commit has no parent, so the branch then holds the written files only.
PubPush(i) ==
  /\ bg[i].pc = "push"
  /\ \/ /\ bg' = [bg EXCEPT ![i].pc = "revparse",
                    ![i].steps = Step(bg[i], "push")]
        /\ remote' = [remote EXCEPT ![NameOf(i)] = bg[i].files]
     \/ /\ bg' = ReturnNone(i)
        /\ UNCHANGED remote
  /\ UNCHANGED <<STORED_SECRET_HASH, nreq, resp, rows, updates>>

\* The triple returned on line 163.
Triple(i) == <<HtmlUrl(NameOf(i)), CommitSha(i), PagesUrl(NameOf(i))>>

\* Line 127 and the end of the with block: git rev-parse HEAD.  Without
\* evaluation_data (line 143) the triple is returned at once.
PubRevParse(i) ==
  /\ bg[i].pc = "revparse"
  /\ \/ bg' = IF bg[i].direct
              THEN [bg EXCEPT ![i] = [Leave(bg[i]) EXCEPT
                                        !.pc = ReturnPc(bg[i]),
                                        !.result = Triple(i)]]
              ELSE [bg EXCEPT ![i].pc = "notify", ![i].tmp = FALSE,
                      ![i].dir = 0, ![i].result = Triple(i)]
     \/ bg' = ReturnNone(i)
  /\ UNCHANGED <<STORED_SECRET_HASH, nreq, resp, rows, updates, remote>>

\* Lines 143-163: one iteration of the notification loop; when the loop is
\* left the triple is returned to process_task.
PubNotify(i) ==
  /\ bg[i].pc = "notify"
  /\ \E o \in PostOutcomes(bg[i].data.evaluation_url) :
       LET l == LoopStep(bg[i].pub, o) IN
       bg' = [bg EXCEPT
                ![i] = [(IF LoopOver(l) THEN Leave(bg[i]) ELSE bg[i]) EXCEPT
                          !.pub = l,
                          !.sent = IF Falsy(bg[i].data.evaluation_url) THEN @
                                   ELSE @ \cup {bg[i].result},
                          !.pc = IF LoopOver(l) THEN ReturnPc(bg[i])
                                 ELSE "notify"]]
  /\ UNCHANGED <<STORED_SECRET_HASH, nreq, resp, rows, updates, remote>>

(***************************************************************************)
(* post_to_evaluation_url and the end of process_task                      *)
(***************************************************************************)
\* Lines 135-137: no evaluation_url, the callback is skipped.
PostEvalSkip(i) ==
  /\ bg[i].pc = "post_eval"
  /\ Falsy(bg[i].data.evaluation_url)
  /\ bg' = [bg EXCEPT ![i].pc = "complete"]
  /\ UNCHANGED <<STORED_SECRET_HASH, nreq, resp, rows, updates, remote>>

\* A retry loop that raises once the delays are exhausted.
PostEvalRaises(i) ==
  /\ bg[i].pc = "post_eval"
  /\ ~Falsy(bg[i].data.evaluation_url)
  /\ \E o \in PostOutcomes(bg[i].data.evaluation_url) :
       LET l == LoopStep(bg[i].ev, o) IN
       bg' = [bg EXCEPT
                ![i].ev = l,
                ![i].sent = @ \cup {bg[i].result},
                ![i].err = IF LoopOver(l) /\ ~l.acked THEN "CallbackError" ELSE @,
                ![i].pc = IF ~LoopOver(l) THEN "post_eval"
                          ELSE IF l.acked THEN "complete" ELSE "except"]
  /\ UNCHANGED <<STORED_SECRET_HASH, nreq, resp, rows, updates, remote>>

\* Lines 139-159: one iteration of the retry loop.
PostEval(i) ==
  /\ bg[i].pc = "post_eval"
  /\ ~Falsy(bg[i].data.evaluation_url)
  /\ \E o \in PostOutcomes(bg[i].data.evaluation_url) :
       LET l == LoopStep(bg[i].ev, o) IN
       bg' = [bg EXCEPT
                ![i].ev = l,
                ![i].sent = @ \cup {bg[i].result},
                ![i].pc = IF LoopOver(l) THEN "complete" ELSE "post_eval"]
  /\ UNCHANGED <<STORED_SECRET_HASH, nreq, resp, rows, updates, remote>>

\* Lines 113-120: the UPDATE to "completed: ...".
UpdateCompleted(i) ==
  /\ bg[i].pc = "complete"
  /\ rows' = UpdateStatus(rows, bg[i].data.nonce,
                          Completed(bg[i].data.task, bg[i].data.round))
  /\ updates' = CountUpdate(updates, rows, bg[i].data.nonce)
  /\ bg' = [bg EXCEPT ![i].pc = "done"]
  /\ UNCHANGED <<STORED_SECRET_HASH, nreq, resp, remote>>

(***************************************************************************)
(* Specifications                                                          *)
(***************************************************************************)
Next ==
  \/ ReceiveTask(MaxReq)
  \/ \E i \in 1..Len(bg) : GenerateCall(i, CallKeywords)
  \/ \E i \in 1..Len(bg) : UpdateFailed(i)

Spec == Init /\ [][Next]_vars

\* The keywords of the call that generate_files_from_brief declares.
DeclaredKeywords == CallKeywords \cap GenParams

NextGen ==
  \/ ReceiveTask(MaxGenReq)
  \/ \E i \in 1..Len(bg) : GenerateCall(i, DeclaredKeywords)
  \/ \E i \in 1..Len(bg) : UpdateFailed(i)
  \/ \E i \in 1..Len(bg) : PubResolve(i)
  \/ \E i \in 1..Len(bg) : PubPages(i)
  \/ \E i \in 1..Len(bg) : PubWrite(i)
  \/ \E i \in 1..Len(bg) : PubCommit(i)
  \/ \E i \in 1..Len(bg) : PubPush(i)
  \/ \E i \in 1..Len(bg) : PubRevParse(i)
  \/ \E i \in 1..Len(bg) : PubNotify(i)
  \/ \E i \in 1..Len(bg) : PostEvalSkip(i)
  \/ \E i \in 1..Len(bg) : PostEval(i)
  \/ \E i \in 1..Len(bg) : UpdateCompleted(i)

SpecGen == Init /\ [][NextGen]_vars

(***************************************************************************)
(* create_and_push_repo called on its own                                  *)
(***************************************************************************)
\* A nonce whose first eight characters differ from those of NonceA.
NonceC == <<"e","f","0","1","-","5","6","7","8","-","z","z">>

\* Nonces from which the repository names of the calls are derived.
CallNonces == {NonceA, NonceB, NonceC}

\* File mappings passed by the caller: the mapping process_task passes, the
\* same with a file of the caller's at the workflow path, and the same with
\* one more file.
CallFiles ==
  {ProcessTaskFiles("<html>"),
   DictSet(ProcessTaskFiles("<html>"), WorkflowPath, "custom"),
   DictSet(ProcessTaskFiles("<html>"), "notes.txt", "notes")}

\* The arguments of the calls: the mapping of process_task under NonceA and
\* under NonceC, the mapping with the caller's workflow file under NonceA,
\* and the mapping with one more file under NonceB.
CallArgs ==
  {a \in [nonce : CallNonces, files : CallFiles] :
     \/ a.files = ProcessTaskFiles("<html>") /\ a.nonce \in {NonceA, NonceC}
     \/ a.files = DictSet(ProcessTaskFiles("<html>"), WorkflowPath, "custom")
        /\ a.nonce = NonceA
     \/ a.files = DictSet(ProcessTaskFiles("<html>"), "notes.txt", "notes")
        /\ a.nonce = NonceB}

\* create_and_push_repo(repo_name, files) is entered, repo_name derived as
\* in process_task and evaluation_data left at its default.
CallPublish(max) ==
  /\ Len(bg) < max
  /\ \E a \in CallArgs :
       bg' = Append(bg,
               [NewTask([BaseRequest EXCEPT !.nonce = a.nonce,
                                            !.evaluation_url = None])
                  EXCEPT !.pc = "publish", !.files = a.files,
                         !.given = a.files, !.direct = TRUE])
  /\ UNCHANGED <<STORED_SECRET_HASH, nreq, resp, rows, updates, remote>>

\* The service is configured and has received no request.
InitCall == Init /\ ~Falsy(STORED_SECRET_HASH)

NextCall ==
  \/ CallPublish(MaxCalls)
  \/ \E i \in 1..Len(bg) : PubResolve(i)
  \/ \E i \in 1..Len(bg) : PubPages(i)
  \/ \E i \in 1..Len(bg) : PubWrite(i)
  \/ \E i \in 1..Len(bg) : PubCommit(i)
  \/ \E i \in 1..Len(bg) : PubPush(i)
  \/ \E i \in 1..Len(bg) : PubRevParse(i)

SpecCall == InitCall /\ [][NextCall]_vars

(***************************************************************************)
(* Properties                                                              *)
(***************************************************************************)
Tasks == 1..Len(bg)

\* Task i has returned from process_task.
Done(i) == bg[i].pc = "done"

\* The publisher returned a triple with every component present.
Populated(t) == t # << >> /\ \A j \in 1..Len(t) : ~Falsy(t[j])

\* POSTs task i has made to its callback URL, and 200 responses it has seen.
Posts(i) ==
  IF Falsy(bg[i].data.evaluation_url) THEN 0 ELSE bg[i].pub.k + bg[i].ev.k
Acks(i) ==
  (IF bg[i].pub.acked THEN 1 ELSE 0) + (IF bg[i].ev.acked THEN 1 ELSE 0)

\* Task i performs its final UPDATE in this step.
Finishes(i) == bg[i].pc # "done" /\ bg'[i].pc = "done"

\* C1 (as claimed): a round-1 task whose external calls (LLM, repository
\* creation or reuse, git push) did not fail ends with its row "completed: ..."
\* and with the repository <task>-<first 8 characters of the nonce without
\* '-'> on the platform.
C1_HappyPathCompletes ==
  \A i \in Tasks :
    (/\ Done(i)
     /\ bg[i].data.round = 1
     /\ bg[i].llm # "raised"
     /\ bg[i].result # NoneTriple
     /\ bg[i].err \notin {"RuntimeError", "LLMError", "GITHUB_TOKEN not set",
                          "GithubException", "ConnectionError"})
    => /\ rows[i].status[1] = "completed"
       /\ RepoName(bg[i].data.task, bg[i].data.nonce) \in DOMAIN remote

\* C2 (as claimed): every row is inserted as "received", its status is written
\* exactly once more, to a terminal value, and no row is deleted.
C2_StatusWrittenOnce ==
  /\ Len(rows) = Len(bg)
  /\ \A k \in 1..Len(rows) :
       /\ rows[k].id = k
       /\ updates[k] <= 1
       /\ updates[k] = 0 => rows[k].status = Received
       /\ updates[k] = 1 => IsTerminal(rows[k].status)

\* A request is received in this step.
Receives == nreq' = nreq + 1

\* The step leaves the table, the background tasks and the platform alone.
NothingStarted == rows' = rows /\ updates' = updates /\ bg' = bg /\ remote' = remote

\* C3: a request whose secret digest differs from the configured digest gets
\* HTTP 403, inserts no row and schedules no background task.
C3_WrongSecretRejected ==
  [][(/\ Receives
      /\ ~Falsy(STORED_SECRET_HASH)
      /\ hash_secret(resp'.secret) # STORED_SECRET_HASH)
     => (resp'.code = 403 /\ NothingStarted)]_vars

C3_Witness == resp.code = 403 /\ resp.secret = "wrong" /\ rows = << >>

\* C4: with no digest configured every request gets HTTP 500, whatever its
\* secret, inserts no row and schedules no background task.
C4_UnconfiguredRejected ==
  [][(Receives /\ Falsy(STORED_SECRET_HASH))
     => (resp'.code = 500 /\ NothingStarted)]_vars

C4_Witness ==
  /\ STORED_SECRET_HASH = None
  /\ resp.code = 500
  /\ resp.secret = "s3cret"
  /\ nreq = MaxReq

\* C5: once the LLM call of a task has raised, the task never enters
\* create_and_push_repo, sends no callback POST, and its final UPDATE writes
\* "failed: ..." to its row.
C5_LlmRaiseFails ==
  [][\A i \in 1..Len(bg') :
       bg'[i].llm = "raised"
       => /\ bg'[i].pc \in {"except", "done"}
          /\ bg'[i].result = << >>
          /\ bg'[i].pub.k = 0 /\ bg'[i].ev.k = 0 /\ bg'[i].sent = {}
          /\ ~bg'[i].tmp
          /\ (i <= Len(bg) /\ Finishes(i)) => rows'[i].status[1] = "failed"]_vars

C5_Witness ==
  \E i \in Tasks :
    bg[i].llm = "raised" /\ Done(i) /\ rows[i].status = Failed("LLMError")

C8_RetrySequence ==
  [][\A i \in Tasks :
       bg[i].pc = "post_eval"
       => /\ bg'[i].pc \in {"post_eval", "complete"}
          /\ bg'[i].ev.k <= 4
          /\ bg'[i].ev.k # bg[i].ev.k
             => /\ bg'[i].ev.k = bg[i].ev.k + 1
                /\ ~bg[i].ev.acked
                /\ bg[i].ev.slept = SubSeq(<<1, 2, 4, 8>>, 1, bg[i].ev.k)
          /\ (bg'[i].pc = "complete" /\ ~Falsy(bg[i].data.evaluation_url))
             => (bg'[i].ev.acked \/ bg'[i].ev.k = 4)]_vars

C8_Witness ==
  \E i \in Tasks :
    /\ bg[i].pc = "complete"
    /\ bg[i].ev.k = 4 /\ bg[i].ev.acked /\ bg[i].ev.slept = <<1, 2, 4>>

NotifyExhausted(b) ==
  /\ ~Falsy(b.data.evaluation_url)
  /\ Populated(b.result)
  /\ b.pub.k = 4 /\ ~b.pub.acked
  /\ b.ev.k = 4 /\ ~b.ev.acked

\* C10: a task whose publish succeeded and whose every callback attempt failed
\* does not take the failure path, and its final UPDATE writes "completed: ..."
\* to its row.
C10_BestEffortNotify ==
  [][\A i \in Tasks :
       NotifyExhausted(bg'[i])
       => /\ bg'[i].pc \in {"complete", "done"}
          /\ bg'[i].err = None
          /\ Finishes(i)
             => rows'[i].status = Completed(bg[i].data.task, bg[i].data.round)]_vars

C10_Witness ==
  \E i \in Tasks :
    /\ Done(i)
    /\ NotifyExhausted(bg[i])
    /\ rows[i].status[1] = "completed"

(***************************************************************************)
(* Properties of the publisher                                             *)
(***************************************************************************)
\* Task i's call of create_and_push_repo moves from one step to the next.
Moves(i, from, to) == bg[i].pc = from /\ bg'[i].pc = to

\* create_and_push_repo has returned a populated triple to task i's caller.
Published(i) == bg[i].pc \notin {"publish", "pages", "write", "commit", "push",
                                 "revparse", "notify"}
                /\ Populated(bg[i].result)

\* C11: Publishing is idempotent at the level of repository identity: every
\* publish for a (task, nonce) resolves and pushes to the one repository
\* named after them; a publish that finds the repository takes the reuse
\* branch and leaves it as it is, no repository is ever removed or created
\* twice, and a push replaces the content of that repository's main branch
\* by the publish's own files.
C11_PublishIdempotent ==
  [][\A i \in Tasks :
       /\ Moves(i, "publish", "pages")
          => IF NameOf(i) \in DOMAIN remote
             THEN bg'[i].how = "reused" /\ remote' = remote
             ELSE /\ bg'[i].how = "created"
                  /\ DOMAIN remote' = DOMAIN remote \cup {NameOf(i)}
                  /\ \A n \in DOMAIN remote : remote'[n] = remote[n]
       /\ Moves(i, "push", "revparse")
          => /\ NameOf(i) \in DOMAIN remote
             /\ remote' = [remote EXCEPT ![NameOf(i)] = bg[i].files]
       /\ DOMAIN remote \subseteq DOMAIN remote']_vars

\* A second publish for the same (task, nonce), made after the first has
\* succeeded, has reused the repository and pushed its own files.
C11_Witness ==
  \E i, j \in Tasks :
    /\ i # j /\ bg[i].data.nonce = bg[j].data.nonce
    /\ bg[i].data.task = bg[j].data.task
    /\ Published(j)
    /\ bg[i].pc = "revparse" /\ bg[i].how = "reused"
    /\ bg[i].given # ProcessTaskFiles("<html>")
    /\ remote[NameOf(i)] = bg[i].files
    /\ Cardinality(DOMAIN remote) = 1

(***************************************************************************)
(* Properties of process_task                                              *)
(***************************************************************************)
\* Task i is inside create_and_push_repo.
Publishing(i) == bg[i].pc \in {"publish", "pages", "write", "commit", "push",
                               "revparse", "notify"}

\* C12: An accepted request whose round is neither 1 nor 2 is a no-op: its
\* row keeps the status "received" for ever, the workflow never writes a
\* status and never enters the publisher, so that no repository is created
\* or pushed for it.
C12_UnsupportedRoundNoOp ==
  \A i \in Tasks :
    bg[i].data.round \notin {1, 2}
    => /\ rows[i].status = Received
       /\ bg[i].pc # "done"
       /\ ~Publishing(i) /\ bg[i].result = << >>

\* C13: Every status update made by a task's workflow modifies exactly one
\* row, the one inserted by the request that started the task: no other
\* row is written, also when another request carries the same nonce.
C13_UpdatesOwnRecordOnly ==
  [][\A i \in Tasks :
       Finishes(i)
       => /\ updates'[i] = updates[i] + 1
          /\ \A k \in 1..Len(rows) :
               k # i => rows'[k] = rows[k] /\ updates'[k] = updates[k]]_vars

(***************************************************************************)
(* Properties of concurrent publishes                                      *)
(***************************************************************************)
\* The temporary directories of tasks i and j, where both exist, differ.
DirsDiffer(i, j) == (bg[i].dir # 0 /\ bg[j].dir # 0) => bg[i].dir # bg[j].dir

\* Task i's push leaves the repository named for task j as it is.
PushSpares(i, j) ==
  (Moves(i, "push", "revparse") /\ NameOf(j) \in DOMAIN remote)
  => remote'[NameOf(j)] = remote[NameOf(j)]

\* C14 as stated: any two concurrently running tasks with distinct nonces own
\* disjoint resources: their repository names differ and their temporary
\* directories differ, so that the push of one never changes the repository
\* of the other.
C14_DistinctNoncesDisjoint ==
  [][\A i, j \in Tasks :
       (i # j /\ bg[i].data.nonce # bg[j].data.nonce)
       => /\ NameOf(i) # NameOf(j)
          /\ DirsDiffer(i, j)
          /\ PushSpares(i, j)]_vars

\* The task names of i and j differ, or their nonces differ within the first
\* eight characters other than "-".
PrefixesDiffer(i, j) ==
  \/ bg[i].data.task # bg[j].data.task
  \/ bg[i].short # bg[j].short

\* C14: Any two concurrently running tasks own distinct temporary
\* directories; two tasks whose task names differ or whose nonces differ
\* within their first eight characters other than "-" have different
\* repository names, and the push of one never changes the repository of
\* the other; two tasks with the same task name whose nonces agree in those
\* eight characters share one repository name.
C14_DistinctPrefixesDisjoint ==
  [][\A i, j \in Tasks :
       i < j
       => /\ DirsDiffer(i, j)
          /\ (NameOf(i) # NameOf(j)) <=> PrefixesDiffer(i, j)
          /\ NameOf(i) # NameOf(j) => (PushSpares(i, j) /\ PushSpares(j, i))]_vars

\* Two tasks whose nonces differ in the first eight characters have both
\* pushed, each from its own directory to its own repository.
C14_Witness ==
  \E i, j \in Tasks :
    /\ bg[i].short # bg[j].short
    /\ bg[i].pc = "revparse" /\ bg[j].pc = "revparse"
    /\ bg[i].dir # 0 /\ bg[j].dir # 0 /\ bg[i].dir # bg[j].dir
    /\ bg[i].files # bg[j].files
    /\ remote[NameOf(i)] = bg[i].files /\ remote[NameOf(j)] = bg[j].files

(***************************************************************************)
(* Properties of one publish                                               *)
(***************************************************************************)
\* Sequence s is an initial part of sequence t.
IsPrefix(s, t) == Len(s) <= Len(t) /\ s = SubSeq(t, 1, Len(s))

\* C15 as stated: within one publish the steps occur in the order resolve
\* repository, write files, commit, push, request static hosting; the
\* request for static hosting is made only after the push.
C15_HostingAfterPush ==
  \A i \in Tasks :
    IsPrefix(bg[i].steps, <<"resolve", "write", "commit", "push", "pages">>)

\* C15: Within one publish the steps occur strictly in the order resolve
\* repository, request static hosting, write files, commit, push, each only
\* after the one before it: the request for static hosting is made after
\* the repository is resolved and before any file is written or pushed, and
\* no push is made before the repository is resolved and the commit made.
C15_HostingBeforeWrite ==
  \A i \in Tasks :
    /\ IsPrefix(bg[i].steps, <<"resolve", "pages", "write", "commit", "push">>)
    /\ bg[i].pc = "push" => Len(bg[i].steps) = 4
    /\ bg[i].pc = "revparse" => Len(bg[i].steps) = 5

\* A publish has pushed, after all five steps.
C15_Witness ==
  \E i \in Tasks :
    /\ bg[i].pc = "revparse"
    /\ bg[i].steps = <<"resolve", "pages", "write", "commit", "push">>
    /\ remote[NameOf(i)] = bg[i].files

\* C16: The request for static hosting never aborts the publish: whatever
\* its outcome (201/204, 409, 404, another status, an exception), the
\* publish goes on to write the files with the workflow file added, no
\* error and no result is recorded for it, and the step that follows does
\* not depend on the outcome.
C16_HostingNeverAborts ==
  [][\A i \in Tasks :
       /\ (bg[i].pc = "pages" /\ bg'[i] # bg[i])
          => /\ bg'[i].pc = "write"
             /\ bg'[i].hosting \in HostingOutcomes
             /\ bg'[i].err = None /\ bg'[i].result = << >>
             /\ bg'[i].files = DictSet(bg[i].files, WorkflowPath, "workflow")
       /\ (bg[i].pc = "write" /\ bg'[i] # bg[i])
          => /\ bg[i].hosting \in HostingOutcomes
             /\ bg'[i].hosting = None /\ bg'[i].err = None
             /\ \/ bg'[i].pc = "commit" /\ bg'[i].tmp
                \/ bg'[i].pc = ReturnPc(bg[i]) /\ bg'[i].result = NoneTriple]_vars

\* The request for static hosting raised and the publish is at the step
\* that writes the files.
C16_Witness ==
  \E i \in Tasks :
    /\ bg[i].pc = "write" /\ bg[i].hosting = "raised"
    /\ bg[i].steps = <<"resolve", "pages">>
    /\ bg[i].err = None /\ WorkflowPath \in DOMAIN bg[i].files

\* The temporary directory of record b exists only between the step that
\* creates it and the end of the with block.
DirOnlyInside(b) ==
  /\ b.tmp <=> b.dir # 0
  /\ b.tmp => b.pc \in {"commit", "push", "revparse"}

\* C17: The temporary directory is released on every exit path of
\* create_and_push_repo: it exists only inside the with block, so not once
\* the function has returned or raised, and while it exists the task makes
\* no callback attempt and writes no status.
C17_TmpReleased ==
  [][\A i \in Tasks :
       /\ DirOnlyInside(bg[i]) /\ DirOnlyInside(bg'[i])
       /\ bg[i].tmp
          => /\ bg'[i].sent = bg[i].sent
             /\ bg'[i].pub = bg[i].pub /\ bg'[i].ev = bg[i].ev
             /\ ~Finishes(i)]_vars

\* create_and_push_repo has returned a populated triple to process_task
\* after a callback attempt, and the directory it pushed from is gone.
C17_Witness ==
  \E i \in Tasks :
    /\ bg[i].pc = "post_eval" /\ Populated(bg[i].result)
    /\ bg[i].pub.k > 0 /\ bg[i].sent # {}
    /\ ~bg[i].tmp /\ bg[i].dir = 0 /\ LiveDirs = {}

\* The paths every mapping passed by process_task holds, and the workflow.
RequiredPaths == {"index.html", "README.md", "LICENSE", WorkflowPath}

\* C18: After every successful push the main branch of the repository holds
\* exactly the published file set: the files passed by the caller, with the
\* workflow file put at its path over any file the caller supplied there;
\* the set contains index.html, README.md, LICENSE and the workflow file,
\* and no file of an earlier publish that the new set lacks remains.
C18_RemoteHoldsPublishedSet ==
  [][\A i \in Tasks :
       /\ Moves(i, "pages", "write")
          => /\ bg'[i].files[WorkflowPath] = "workflow"
             /\ DOMAIN bg'[i].files = DOMAIN bg[i].given \cup {WorkflowPath}
             /\ \A p \in DOMAIN bg[i].given \ {WorkflowPath} :
                  bg'[i].files[p] = bg[i].given[p]
       /\ Moves(i, "push", "revparse")
          => /\ remote'[NameOf(i)] = bg[i].files
             /\ remote'[NameOf(i)] =
                  DictSet(bg[i].given, WorkflowPath, "workflow")
             /\ RequiredPaths \subseteq DOMAIN remote'[NameOf(i)]
             /\ \A p \in DOMAIN remote[NameOf(i)] :
                  p \notin DOMAIN bg[i].files
                  => p \notin DOMAIN remote'[NameOf(i)]]_vars

\* A publish whose caller supplied a file at the workflow path has pushed
\* over the repository of an earlier publish: the branch holds the workflow
\* and nothing the mapping lacks.
C18_Witness ==
  \E i, j \in Tasks :
    /\ i # j /\ NameOf(i) = NameOf(j) /\ Published(j)
    /\ bg[i].pc = "revparse" /\ bg[i].how = "reused"
    /\ WorkflowPath \in DOMAIN bg[i].given
    /\ bg[i].given[WorkflowPath] = "custom"
    /\ remote[NameOf(i)][WorkflowPath] = "workflow"
    /\ DOMAIN remote[NameOf(i)] = RequiredPaths

====
